---- MODULE Spec2Model ----
(***************************************************************************)
(* A model of the csis279_server REST backend: the relational store the    *)
(* services write through Prisma, the JWT gate, the like / unlike / save   *)
(* interaction model and the CRUD handlers of Topics, Questions, Events,   *)
(* Replies and Users.                                                      *)
(***************************************************************************)
EXTENDS Integers, Sequences, FiniteSets, Bags, TLC

VARIABLES
  db,        \* the relational store
  inflight,  \* like / unlike requests between their two round-trips
  resp,      \* the last response sent
  failed,    \* the items on which a like / unlike failed at its join-row step
  now        \* the clock, in seconds

vars == <<db, inflight, resp, failed, now>>

\* ---------------------------------------------------------------- bounds
\* Highest UserID the User sequence hands out.
MaxUserID == 2
\* Content rows (topics, questions, events, replies together) ever inserted.
MaxRows == 1
\* The like counter is explored in -MaxCount .. MaxCount.
MaxCount == 2
\* Like / unlike requests between their two persistence round-trips.
MaxInflight == 2
\* The clock runs from 0 to MaxTime (seconds).
MaxTime == 1
\* Rows of one table in the store a list request reads.
MaxListed == 2

\* ------------------------------------------------------- program constants
\* process.env.JWT_DURATION as read at login.
JWT_DURATION == 1
\* bcrypt cost factor passed to hash().
SaltRounds == 10

NULL == 0

SECRET_KEY == "SECRET_KEY"

\* ----------------------------------------------------------------- schema
Tables == {"Topics", "Questions", "Events", "Replies"}

Saveable == {"Topics", "Questions", "Events"}

\* The Likes / Saved column that references a row of content table t.
Column(t) ==
  CASE t = "Topics" -> "TopicID"
    [] t = "Questions" -> "QuestionID"
    [] t = "Events" -> "EventID"
    [] t = "Replies" -> "ReplyID"

LikeRow(t, id, u) ==
  [c \in {"UserID", "EventID", "TopicID", "QuestionID", "ReplyID"} |->
     IF c = "UserID" THEN u ELSE IF c = Column(t) THEN id ELSE NULL]

SavedRow(t, id, u) ==
  [c \in {"UserID", "EventID", "TopicID", "QuestionID"} |->
     IF c = "UserID" THEN u ELSE IF c = Column(t) THEN id ELSE NULL]

\* A content row.  Title is NULL-free text; Replies carry their parent in
\* TopicID / QuestionID; LikesNb is the column DEFAULT 0 at insert.  Events
\* have a Date (of the event) and a Location and no CreatedAt column.
ContentRow(t, id, dto) ==
  [ID |-> id,
   Title |-> IF t = "Replies" THEN "" ELSE dto.Title,
   Content |-> dto.Content,
   CreatedAt |-> IF t = "Events" THEN NULL ELSE dto.CreatedAt,
   Date |-> IF t = "Events" THEN dto.Date ELSE NULL,
   Location |-> IF t = "Events" THEN dto.Location ELSE "",
   CreatorID |-> dto.CreatorID,
   LikesNb |-> 0,
   TopicID |-> IF t = "Replies" /\ dto.Parent = "Topics" THEN dto.TargetID ELSE NULL,
   QuestionID |-> IF t = "Replies" /\ dto.Parent = "Questions" THEN dto.TargetID ELSE NULL]

EmptyDB ==
  [User |-> {}, Topics |-> {}, Questions |-> {}, Events |-> {}, Replies |-> {},
   Likes |-> EmptyBag, Saved |-> EmptyBag,
   seq |-> [t \in Tables \cup {"User"} |-> 0]]

UserIDs(d) == {u.UserID : u \in d.User}

IDs(d, t) == {r.ID : r \in d[t]}

RowOf(d, t, id) == CHOOSE r \in d[t] : r.ID = id

RowsInserted(d) == d.seq["Topics"] + d.seq["Questions"] + d.seq["Events"] + d.seq["Replies"]

\* --------------------------------------------------------------- password
\* bcrypt: hash() salts the plaintext, compare() re-derives the digest with
\* the salt stored in the hash.
Digest(plain, salt) == <<plain, salt>>

hash(plain, salt) == [salt |-> salt, rounds |-> SaltRounds, digest |-> Digest(plain, salt)]

\* The promise of compare() tested without await: always truthy.
compareNotAwaited(plain, hashed) == TRUE

compare(plain, hashed) == hashed.digest = Digest(plain, hashed.salt)

\* ------------------------------------------------------ persistence layer
Ok(d) == [ok |-> TRUE, error |-> "", db |-> d]

Fail(d, code) == [ok |-> FALSE, error |-> code, db |-> d]

\* The counter written as a value and not as an increment.
UpdateLikesNbOverwrites(d, t, id, delta) ==
  IF id \in IDs(d, t)
  THEN Ok([d EXCEPT ![t] = {IF r.ID = id THEN [r EXCEPT !.LikesNb = delta] ELSE r : r \in @}])
  ELSE Fail(d, "P2025")

\* An update that matches no row and resolves all the same (updateMany).
UpdateLikesNbMatchesNothing(d, t, id, delta) ==
  Ok([d EXCEPT ![t] = {IF r.ID = id THEN [r EXCEPT !.LikesNb = @ + delta] ELSE r : r \in @}])

\* update({where: {ID}, data: {LikesNb: {increment | decrement: 1}}})
UpdateLikesNb(d, t, id, delta) ==
  IF id \in IDs(d, t)
  THEN Ok([d EXCEPT ![t] = {IF r.ID = id THEN [r EXCEPT !.LikesNb = @ + delta] ELSE r : r \in @}])
  ELSE Fail(d, "P2025")

\* The Likes table without its unique (target, UserID) index.
LikesCreateNoUniqueIndex(d, t, id, u) ==
  IF u \notin UserIDs(d) \/ id \notin IDs(d, t) THEN Fail(d, "P2003")
  ELSE Ok([d EXCEPT !.Likes = @ (+) SetToBag({LikeRow(t, id, u)})])

\* likes.create: foreign keys on UserID and the target, unique (target, UserID).
LikesCreate(d, t, id, u) ==
  IF u \notin UserIDs(d) \/ id \notin IDs(d, t) THEN Fail(d, "P2003")
  ELSE IF BagIn(LikeRow(t, id, u), d.Likes) THEN Fail(d, "P2002")
  ELSE Ok([d EXCEPT !.Likes = @ (+) SetToBag({LikeRow(t, id, u)})])

\* A delete whose where clause matches no row and which reports success.
LikesDeleteMatchesNothing(d, t, id, u) ==
  IF BagIn(LikeRow(t, id, u), d.Likes) THEN Ok(d) ELSE Fail(d, "P2025")

\* likes.delete by the compound unique key.
LikesDelete(d, t, id, u) ==
  IF BagIn(LikeRow(t, id, u), d.Likes)
  THEN Ok([d EXCEPT !.Likes = @ (-) SetToBag({LikeRow(t, id, u)})])
  ELSE Fail(d, "P2025")

\* The Saved table without its unique (target, UserID) indexes.
SavedCreateNoUniqueIndex(d, t, id, u) ==
  IF u \notin UserIDs(d) \/ id \notin IDs(d, t) THEN Fail(d, "P2003")
  ELSE Ok([d EXCEPT !.Saved = @ (+) SetToBag({SavedRow(t, id, u)})])

\* saved.create: foreign keys on UserID and the target, unique (target, UserID).
SavedCreate(d, t, id, u) ==
  IF u \notin UserIDs(d) \/ id \notin IDs(d, t) THEN Fail(d, "P2003")
  ELSE IF BagIn(SavedRow(t, id, u), d.Saved) THEN Fail(d, "P2002")
  ELSE Ok([d EXCEPT !.Saved = @ (+) SetToBag({SavedRow(t, id, u)})])

SavedDelete(d, t, id, u) ==
  IF BagIn(SavedRow(t, id, u), d.Saved)
  THEN Ok([d EXCEPT !.Saved = @ (-) SetToBag({SavedRow(t, id, u)})])
  ELSE Fail(d, "P2025")

\* A delete that leaves the references to the deleted row as they were.
SetNullKeepsReference(r, c, id) == r

\* ON DELETE SET NULL on column c of a join or reply row that references id.
SetNull(r, c, id) == IF r[c] = id THEN [r EXCEPT ![c] = NULL] ELSE r

\* delete({where: {ID}}) on a content table, with the schema's referential
\* actions: Likes, Saved and Replies rows that reference the row keep living
\* with the reference set to NULL.
ContentDelete(d, t, id) ==
  LET nulled(r) == SetNull(r, Column(t), id)
      d1 == [d EXCEPT ![t] = {r \in @ : r.ID # id}]
      d2 == [d1 EXCEPT !.Likes = BagOfAll(nulled, @)]
      d3 == IF t \in Saveable THEN [d2 EXCEPT !.Saved = BagOfAll(nulled, @)] ELSE d2
      d4 == IF t \in {"Topics", "Questions"}
            THEN [d3 EXCEPT !.Replies = {nulled(r) : r \in @}] ELSE d3
  IN IF id \in IDs(d, t) THEN Ok(d4) ELSE Fail(d, "P2025")

\* create({data}) on a content table: the sequence advances, then the foreign
\* keys (CreatorID, and the parent of a reply) are checked.
ContentCreate(d, t, dto) ==
  LET id == d.seq[t] + 1
      d1 == [d EXCEPT !.seq[t] = id]
      fk == /\ dto.CreatorID \in UserIDs(d)
            /\ t = "Replies" => dto.TargetID \in IDs(d, dto.Parent)
  IN IF fk THEN Ok([d1 EXCEPT ![t] = @ \cup {ContentRow(t, id, dto)}])
     ELSE Fail(d1, "P2003")

\* A field of `data` left undefined is not written.
Patch(old, new, missing) == IF new = missing THEN old ELSE new

\* An update that writes the whole row anew, its counter back at the default.
ContentUpdateResetsLikesNb(d, t, id, dto) ==
  IF id \notin IDs(d, t) THEN Fail(d, "P2025")
  ELSE Ok([d EXCEPT ![t] = {IF r.ID # id THEN r ELSE
         [r EXCEPT
            !.Title = IF t = "Replies" THEN @ ELSE Patch(@, dto.Title, ""),
            !.Content = Patch(@, dto.Content, ""),
            !.Date = IF t = "Events" THEN Patch(@, dto.Date, NULL) ELSE @,
            !.Location = IF t = "Events" THEN Patch(@, dto.Location, "") ELSE @,
            !.LikesNb = 0]
         : r \in @}])

\* update({where: {ID}, data}) with the editable fields of each table.
ContentUpdate(d, t, id, dto) ==
  IF id \notin IDs(d, t) THEN Fail(d, "P2025")
  ELSE Ok([d EXCEPT ![t] = {IF r.ID # id THEN r ELSE
         [r EXCEPT
            !.Title = IF t = "Replies" THEN @ ELSE Patch(@, dto.Title, ""),
            !.Content = Patch(@, dto.Content, ""),
            !.Date = IF t = "Events" THEN Patch(@, dto.Date, NULL) ELSE @,
            !.Location = IF t = "Events" THEN Patch(@, dto.Location, "") ELSE @]
         : r \in @}])

\* Rows that reference user uid with ON DELETE RESTRICT.
OwnsRows(d, uid) ==
  \/ \E t \in Tables : \E r \in d[t] : r.CreatorID = uid
  \/ \E r \in BagToSet(d.Likes) : r.UserID = uid
  \/ \E r \in BagToSet(d.Saved) : r.UserID = uid

\* A lookup that drops its where clause.
UserByIDAnyRow(d, uid) == d.User

UserByID(d, uid) == {u \in d.User : u.UserID = uid}

UserByEmail(d, email) == {u \in d.User : u.Email = email}

\* user.create: the sequence advances, Email is unique.
UserCreate(d, data) ==
  LET id == d.seq["User"] + 1
      d1 == [d EXCEPT !.seq["User"] = id]
  IN IF UserByEmail(d, data.Email) # {} THEN Fail(d1, "P2002")
     ELSE Ok([d1 EXCEPT !.User = @ \cup
            {[UserID |-> id, FirstName |-> data.FirstName, Email |-> data.Email,
              Password |-> data.Password]}])

\* A delete the foreign keys on UserID and CreatorID do not restrict.
UserDeleteUnrestricted(d, uid) ==
  IF UserByID(d, uid) = {} THEN Fail(d, "P2025")
  ELSE Ok([d EXCEPT !.User = {u \in @ : u.UserID # uid}])

\* user.delete: the rows that reference the user restrict it.
UserDelete(d, uid) ==
  IF UserByID(d, uid) = {} THEN Fail(d, "P2025")
  ELSE IF OwnsRows(d, uid) THEN Fail(d, "P2003")
  ELSE Ok([d EXCEPT !.User = {u \in @ : u.UserID # uid}])

UserUpdate(d, uid, data) ==
  IF UserByID(d, uid) = {} THEN Fail(d, "P2025")
  ELSE Ok([d EXCEPT !.User = {IF u.UserID # uid THEN u ELSE
         [u EXCEPT !.FirstName = Patch(@, data.FirstName, ""),
                   !.Password = data.Password] : u \in @}])

\* ------------------------------------------------------------------ tokens
\* A JWT: the payload {sub, email}, the key that signed it, its expiry.
NoToken == [sub |-> NULL, email |-> "", sig |-> "", exp |-> 0]

NoUser == [UserID |-> NULL, FirstName |-> "", Email |-> "", Password |-> hash("", 0)]

\* A token signed without the sub claim of its payload.
signWithoutSubject(payload, expiresIn, time) ==
  [sub |-> NULL, email |-> payload.email, sig |-> SECRET_KEY, exp |-> time + expiresIn]

\* jwtService.signAsync(payload, {expiresIn}): exp = iat + expiresIn seconds.
sign(payload, expiresIn, time) ==
  [sub |-> payload.sub, email |-> payload.email, sig |-> SECRET_KEY, exp |-> time + expiresIn]

\* verify with ignoreExpiration set.
verifyIgnoresExpiry(token, secret, time) == token.sig = secret

\* jwtService.verify(token, {secret}): the signature and the expiry.
verify(token, secret, time) == token.sig = secret /\ time < token.exp

\* Date.now(): milliseconds.
DateNow(time) == 1000 * time

\* The Authorization header: absent, or the words split(' ') yields.
NoHeader == [present |-> FALSE, parts |-> <<>>]

Bearer(token) == [present |-> TRUE, parts |-> <<"Bearer", token>>]

SchemeOnly == [present |-> TRUE, parts |-> <<"Bearer">>]

\* ----------------------------------------------------------------- routes
ContentOps(t) ==
  CASE t \in {"Topics", "Questions"} ->
         {"getAll", "like", "unlike", "save", "unsave", "filtered", "create",
          "getOne", "delete", "update"}
    [] t = "Events" ->
         {"getAll", "like", "unlike", "save", "unsave", "filtered", "create",
          "delete", "update"}
    [] t = "Replies" ->
         {"like", "unlike", "filteredForTopic", "filteredForQuestion",
          "createForTopic", "createForQuestion", "delete", "update"}

AuthOps == {"signup", "login", "logout", "getOne", "getAll", "delete", "update"}

Route(t, op) == [table |-> t, op |-> op]

ContentRoutes == UNION {{Route(t, op) : op \in ContentOps(t)} : t \in Tables}

AuthRoutes == {Route("User", op) : op \in AuthOps}

Routes == ContentRoutes \cup AuthRoutes

\* logOut decorated @SkipAuth() as well.
SkipAuthWithLogout ==
  {Route("User", "signup"), Route("User", "login"), Route("User", "logout")}

\* The handlers decorated @SkipAuth().
SkipAuth == {Route("User", "signup"), Route("User", "login")}

\* The gate stands in front of every route outside the allow-list.
Guarded(route) == route \notin SkipAuth

\* ------------------------------------------------------------------- gate
Admitted(user, calls) == [admitted |-> TRUE, message |-> "", userEntity |-> user, next |-> calls]

Unauthorized(message) ==
  [admitted |-> FALSE, message |-> message, userEntity |-> NoUser, next |-> 0]

\* A gate that trusts the claims of a verified token: the subject is not
\* looked up.
JwtMiddlewareTrustsClaims(d, header, time) ==
  LET token == IF header.present /\ Len(header.parts) >= 2 THEN header.parts[2] ELSE NoToken
  IN IF token = NoToken THEN Unauthorized("No token provided")
     ELSE IF ~verify(token, SECRET_KEY, time) THEN Unauthorized("Invalid token")
     ELSE Admitted([NoUser EXCEPT !.UserID = token.sub, !.Email = token.email], 1)

\* JwtMiddleware.use: whatever the try block throws, the catch rethrows as
\* 'Invalid token'.
JwtMiddleware(d, header, time) ==
  LET token == IF header.present /\ Len(header.parts) >= 2 THEN header.parts[2] ELSE NoToken
      user == UserByID(d, token.sub)
      thrown == IF ~verify(token, SECRET_KEY, time) THEN "JsonWebTokenError"
                ELSE IF user = {} THEN "User does not exist."
                ELSE ""
  IN IF token = NoToken THEN Unauthorized("No token provided")
     ELSE IF thrown # "" THEN Unauthorized("Invalid token")
     ELSE Admitted(CHOOSE u \in user : TRUE, 1)

Gate(route, d, header, time) ==
  IF Guarded(route) THEN JwtMiddleware(d, header, time) ELSE Admitted(NoUser, 0)

\* --------------------------------------------------------------- services
\* What a service call comes to: the exception it throws ("" for none), the
\* database it leaves, the message it wrote to the error log, how many
\* persistence calls it issued, the token it returns (login) and the list it
\* returns (filtered).
Return(d, q) ==
  [error |-> "", message |-> "", db |-> d, logged |-> "", queries |-> q, cookie |-> NoToken,
   rows |-> <<>>]

Throw(e, m, d, q) ==
  [error |-> e, message |-> m, db |-> d, logged |-> "", queries |-> q, cookie |-> NoToken,
   rows |-> <<>>]

\* catch (error) { this.logger.error(error.message);
\*                 throw new InternalServerErrorException(...) }
Catch(r) ==
  IF r.error = "" THEN r
  ELSE [r EXCEPT !.error = "InternalServerErrorException",
                 !.message = "Internal Server Error", !.logged = r.message]

\* The counter written as a value computed from a read: the number of Like
\* rows of the item at the time of the update, plus one.
likeUpdateReadModifyWrite(d, t, id) ==
  LET n == Cardinality({r \in BagToSet(d.Likes) : r[Column(t)] = id})
      r == UpdateLikesNb(d, t, id, n + 1 - (IF id \in IDs(d, t) THEN RowOf(d, t, id).LikesNb ELSE 0))
  IN Catch(IF r.ok THEN Return(r.db, 1) ELSE Throw("PrismaClientKnownRequestError", r.error, d, 1))

\* First round-trip of likeX / unlikeX: the counter update.
likeUpdate(d, t, id) ==
  LET r == UpdateLikesNb(d, t, id, 1)
  IN Catch(IF r.ok THEN Return(r.db, 1) ELSE Throw("PrismaClientKnownRequestError", r.error, d, 1))

\* unlikeX with likeX's increment left in place.
unlikeUpdateIncrements(d, t, id) ==
  LET r == UpdateLikesNb(d, t, id, 1)
  IN Catch(IF r.ok THEN Return(r.db, 1) ELSE Throw("PrismaClientKnownRequestError", r.error, d, 1))

unlikeUpdate(d, t, id) ==
  LET r == UpdateLikesNb(d, t, id, -1)
  IN Catch(IF r.ok THEN Return(r.db, 1) ELSE Throw("PrismaClientKnownRequestError", r.error, d, 1))

\* The join-row insert in one transaction with the counter update: its failure
\* takes the increment back.
likeCreateRollsBack(d, t, id, u) ==
  LET r == LikesCreate(d, t, id, u)
  IN Catch(IF r.ok THEN Return(r.db, 2)
           ELSE Throw("PrismaClientKnownRequestError", r.error,
                      UpdateLikesNb(d, t, id, -1).db, 2))

\* Second round-trip: the join row.
likeCreate(d, t, id, u) ==
  LET r == LikesCreate(d, t, id, u)
  IN Catch(IF r.ok THEN Return(r.db, 2) ELSE Throw("PrismaClientKnownRequestError", r.error, d, 2))

unlikeDelete(d, t, id, u) ==
  LET r == LikesDelete(d, t, id, u)
  IN Catch(IF r.ok THEN Return(r.db, 2) ELSE Throw("PrismaClientKnownRequestError", r.error, d, 2))

\* likeX / unlikeX run from end to end with no other request in between.
like(d, t, id, u) ==
  LET r == likeUpdate(d, t, id)
  IN IF r.error # "" THEN r ELSE likeCreate(r.db, t, id, u)

\* unlike looking the join row up first: without one it fails before it
\* touches the counter.
unlikeChecksFirst(d, t, id, u) ==
  IF ~BagIn(LikeRow(t, id, u), d.Likes)
  THEN Catch(Throw("PrismaClientKnownRequestError", "P2025", d, 1))
  ELSE LET r == unlikeUpdate(d, t, id)
       IN IF r.error # "" THEN r ELSE unlikeDelete(r.db, t, id, u)

unlike(d, t, id, u) ==
  LET r == unlikeUpdate(d, t, id)
  IN IF r.error # "" THEN r ELSE unlikeDelete(r.db, t, id, u)

saveX(d, t, id, u) ==
  LET r == SavedCreate(d, t, id, u)
  IN Catch(IF r.ok THEN Return(r.db, 1) ELSE Throw("PrismaClientKnownRequestError", r.error, d, 1))

unsaveX(d, t, id, u) ==
  LET r == SavedDelete(d, t, id, u)
  IN Catch(IF r.ok THEN Return(r.db, 1) ELSE Throw("PrismaClientKnownRequestError", r.error, d, 1))

getAll(d, t) == Catch(Return(d, 1))

\* ----------------------------------------------------------- filter / sort
\* A query-string parameter: absent (undefined in the handler), or its value.
Absent == [present |-> FALSE, value |-> ""]

Param(v) == [present |-> TRUE, value |-> v]

\* String(search): the text "undefined" for a parameter that is absent.
String(p) == IF p.present THEN p.value ELSE "undefined"

Letters == "abcdefghijklmnopqrstuvwxyz"

Capitals == "ABCDEFGHIJKLMNOPQRSTUVWXYZ"

\* The position of each character of the two alphabets.
Positions ==
  [alphabet \in {Letters, Capitals} |->
     [c \in {SubSeq(alphabet, i, i) : i \in 1 .. Len(alphabet)} |->
        CHOOSE i \in 1 .. Len(alphabet) : SubSeq(alphabet, i, i) = c]]

\* The position of character c in an alphabet, 0 when it is not one of it.
Index(c, alphabet) ==
  IF c \in DOMAIN Positions[alphabet] THEN Positions[alphabet][c] ELSE 0

RECURSIVE toLowerCase(_)
toLowerCase(s) ==
  IF s = "" THEN ""
  ELSE LET c == SubSeq(s, 1, 1)
           k == Index(c, Capitals)
       IN (IF k = 0 THEN c ELSE SubSeq(Letters, k, k)) \o toLowerCase(Tail(s))

\* {contains: search, mode: 'insensitive'}: ILIKE '%search%'.
Contains(title, search) ==
  LET text == toLowerCase(title)
      part == toLowerCase(search)
  IN \E i \in 1 .. Len(text) - Len(part) + 1 : SubSeq(text, i, i + Len(part) - 1) = part

\* The collation weight of a character: its letter at level 1, its case
\* (lower before upper) at level 3.
Weight(c, level) ==
  IF level = 1 THEN Index(toLowerCase(c), Letters)
  ELSE IF Index(c, Capitals) # 0 THEN 1 ELSE 0

RECURSIVE CompareBy(_, _, _)
CompareBy(a, b, level) ==
  IF a = "" /\ b = "" THEN 0
  ELSE IF a = "" THEN -1
  ELSE IF b = "" THEN 1
  ELSE LET x == Weight(SubSeq(a, 1, 1), level)
           y == Weight(SubSeq(b, 1, 1), level)
       IN IF x < y THEN -1 ELSE IF x > y THEN 1 ELSE CompareBy(Tail(a), Tail(b), level)

\* a.localeCompare(b): the letters decide first, the case breaks their tie.
localeCompare(a, b) ==
  IF CompareBy(a, b, 1) # 0 THEN CompareBy(a, b, 1) ELSE CompareBy(a, b, 3)

\* The rows findMany selects: topics, questions and events by title, replies
\* by their parent.
findMany(d, t, parent, arg) ==
  IF t # "Replies" THEN {r \in d[t] : Contains(r.Title, String(arg))}
  ELSE {r \in d[t] : arg.value # NULL /\ r[Column(parent)] = arg.value}

\* findMany has no orderBy: the rows come in whatever order the scan yields.
Orders(rows) ==
  {s \in [1 .. Cardinality(rows) -> rows] :
     \A i, j \in 1 .. Cardinality(rows) : i # j => s[i] # s[j]}

\* recent / old comparing CreatedAt on every table, events included.
getTimeCreatedAt(t, r) == r.CreatedAt

\* The date recent / old compare: Date for events, CreatedAt for the others.
getTime(t, r) == IF t = "Events" THEN r.Date ELSE r.CreatedAt

\* The text name compares: Content for replies, Title for the others.
Name(t, r) == IF t = "Replies" THEN r.Content ELSE r.Title

\* popular with the operands of its subtraction exchanged.
CompareAscending(t, q, a, b) ==
  CASE q = "popular" -> a.LikesNb - b.LikesNb
    [] q = "recent" -> getTime(t, b) - getTime(t, a)
    [] q = "name" -> localeCompare(Name(t, a), Name(t, b))
    [] q = "old" -> getTime(t, a) - getTime(t, b)

\* The comparator of each case of the switch on q.
Compare(t, q, a, b) ==
  CASE q = "popular" -> b.LikesNb - a.LikesNb
    [] q = "recent" -> getTime(t, b) - getTime(t, a)
    [] q = "name" -> localeCompare(Name(t, a), Name(t, b))
    [] q = "old" -> getTime(t, a) - getTime(t, b)

\* A sort that keeps one item of those the comparator finds equal.
RECURSIVE sortUnique(_, _, _)
sortUnique(s, t, q) ==
  IF s = <<>> THEN <<>>
  ELSE LET n == Len(s)
           sorted == sortUnique(SubSeq(s, 1, n - 1), t, q)
           k == Cardinality({i \in 1 .. Len(sorted) : Compare(t, q, sorted[i], s[n]) <= 0})
       IN IF \E i \in 1 .. Len(sorted) : Compare(t, q, sorted[i], s[n]) = 0 THEN sorted
          ELSE SubSeq(sorted, 1, k) \o <<s[n]>> \o SubSeq(sorted, k + 1, Len(sorted))

\* Array.prototype.sort(compareFn): a stable sort.
RECURSIVE sort(_, _, _)
sort(s, t, q) ==
  IF s = <<>> THEN <<>>
  ELSE LET n == Len(s)
           sorted == sort(SubSeq(s, 1, n - 1), t, q)
           k == Cardinality({i \in 1 .. n - 1 : Compare(t, q, sorted[i], s[n]) <= 0})
       IN SubSeq(sorted, 1, k) \o <<s[n]>> \o SubSeq(sorted, k + 1, n - 1)

\* The q values the filter handlers pass on to the service.
Filters == {"all", "popular", "recent", "name", "old"}

\* The service called whatever q is: the switch has no case for it and the
\* rows are returned as fetched.
filteredUnchecked(d, t, q, fetched) ==
  Catch([Return(d, 1) EXCEPT
           !.rows = IF q.value \in Filters \ {"all"} THEN sort(fetched, t, q.value) ELSE fetched])

\* filtered / filteredForTopic / filteredForQuestion: the handler's check of
\* q, then the service: one findMany, whose result is `fetched`, and the
\* switch on q; the store is only read.
filtered(d, t, q, fetched) ==
  IF ~(q.present /\ q.value \in Filters)
  THEN Throw("BadRequestException", "Invalid Query Parameter", d, 0)
  ELSE Catch([Return(d, 1) EXCEPT
                !.rows = IF q.value = "all" THEN fetched ELSE sort(fetched, t, q.value)])

\* The check without the fields only one kind has: Location, TargetID.
MissingCommonData(t, dto) ==
  \/ t # "Events" /\ dto.CreatedAt = NULL
  \/ t = "Events" /\ dto.Date = NULL
  \/ dto.CreatorID = NULL
  \/ dto.Content = ""
  \/ t # "Replies" /\ dto.Title = ""

\* The mandatory fields of a create DTO.
MissingData(t, dto) ==
  \/ t # "Events" /\ dto.CreatedAt = NULL
  \/ t = "Events" /\ dto.Date = NULL
  \/ dto.CreatorID = NULL
  \/ dto.Content = ""
  \/ t # "Replies" /\ dto.Title = ""
  \/ t = "Events" /\ dto.Location = ""
  \/ t = "Replies" /\ dto.TargetID = NULL

\* create: the promise of the insert is returned without await, so its
\* rejection leaves the try block uncaught.
create(d, t, dto) ==
  IF MissingData(t, dto) THEN Throw("BadRequestException", "Missing Data", d, 0)
  ELSE LET r == ContentCreate(d, t, dto)
       IN IF r.ok THEN Return(r.db, 1)
          ELSE Throw("PrismaClientKnownRequestError", r.error, r.db, 1)

\* getOne / delete / update: the NotFoundException is thrown inside the try
\* block of the handler.
getOne(d, t, id) ==
  Catch(IF id \notin IDs(d, t) THEN Throw("NotFoundException", "Not found", d, 1)
        ELSE Return(d, 1))

delete(d, t, id) ==
  Catch(IF id \notin IDs(d, t) THEN Throw("NotFoundException", "Not found", d, 1)
        ELSE LET r == ContentDelete(d, t, id)
             IN IF r.ok THEN Return(r.db, 2)
                ELSE Throw("PrismaClientKnownRequestError", r.error, d, 2))

update(d, t, id, dto) ==
  IF id \notin IDs(d, t) THEN Catch(Throw("NotFoundException", "Not found", d, 1))
  ELSE LET r == ContentUpdate(d, t, id, dto)
       IN IF r.ok THEN Return(r.db, 2)
          ELSE Throw("PrismaClientKnownRequestError", r.error, d, 2)

\* ------------------------------------------------------------ AuthService
\* signup relying on the unique index alone: no lookup of the email first.
signupWithoutLookup(d, userData, salt) ==
  IF userData.Email = "" \/ userData.Password = ""
  THEN Throw("BadRequestException", "Missing Data", d, 0)
  ELSE LET r == UserCreate(d, [userData EXCEPT !.Password = hash(userData.Password, salt)])
       IN IF r.ok THEN Return(r.db, 1)
          ELSE Throw("PrismaClientKnownRequestError", r.error, r.db, 1)

signup(d, userData, salt) ==
  IF userData.Email = "" \/ userData.Password = ""
  THEN Throw("BadRequestException", "Missing Data", d, 0)
  ELSE IF UserByEmail(d, userData.Email) # {}
  THEN Throw("UnauthorizedException", "Email exists", d, 1)
  ELSE LET r == UserCreate(d, [userData EXCEPT !.Password = hash(userData.Password, salt)])
       IN IF r.ok THEN Return(r.db, 2)
          ELSE Throw("PrismaClientKnownRequestError", r.error, r.db, 2)

login(d, Email, Password, time) ==
  IF Email = "" \/ Password = "" THEN Throw("BadRequestException", "Missing Data", d, 0)
  ELSE IF UserByEmail(d, Email) = {}
  THEN Throw("NotFoundException", "User does not exist", d, 1)
  ELSE LET user == CHOOSE u \in UserByEmail(d, Email) : TRUE
       IN IF ~compare(Password, user.Password)
          THEN Throw("UnauthorizedException", "Cannot login with these credentials", d, 1)
          ELSE [Return(d, 1) EXCEPT
                  !.cookie = sign([sub |-> user.UserID, email |-> user.Email],
                                  DateNow(time) + JWT_DURATION, time)]

getOneUser(d, uid) ==
  Catch(IF UserByID(d, uid) = {} THEN Throw("NotFoundException", "User not found", d, 1)
        ELSE Return(d, 1))

getAllUsers(d) == Catch(Return(d, 1))

deleteUser(d, uid) ==
  Catch(IF UserByID(d, uid) = {} THEN Throw("NotFoundException", "User not found", d, 1)
        ELSE LET r == UserDelete(d, uid)
             IN IF r.ok THEN Return(r.db, 2)
                ELSE Throw("PrismaClientKnownRequestError", r.error, d, 2))

updateUser(d, uid, editDto, salt) ==
  IF UserByID(d, uid) = {} THEN Catch(Throw("NotFoundException", "User not found", d, 1))
  ELSE LET r == UserUpdate(d, uid, [editDto EXCEPT !.Password = hash(editDto.Password, salt)])
       IN IF r.ok THEN Return(r.db, 2)
          ELSE Throw("PrismaClientKnownRequestError", r.error, d, 2)

\* The global ValidationPipe on the decorated DTO fields.
IsEmail(s) == s \notin {"", "nomail"}

IsNotEmpty(s) == s # ""

ValidationPipe(route, body) ==
  CASE route \in {Route("User", "signup"), Route("User", "login")} ->
         IsEmail(body.Email) /\ IsNotEmpty(body.Password)
    [] route = Route("User", "update") -> IsNotEmpty(body.Password)
    [] route = Route("Events", "update") -> body.Date # NULL /\ IsNotEmpty(body.Location)
    [] OTHER -> TRUE

\* ------------------------------------------------------------- responses
\* The HTTP status of an exception; anything that is no HttpException leaves
\* the framework as 500.
Status(error) ==
  CASE error = "BadRequestException" -> 400
    [] error = "UnauthorizedException" -> 401
    [] error = "NotFoundException" -> 404
    [] OTHER -> 500

\* The status of a handler that returns.
SuccessStatus(route) ==
  CASE route.op \in {"like", "unlike", "save", "unsave", "create", "createForTopic",
                     "createForQuestion", "signup"} -> 201
    [] route = Route("User", "delete") -> 204
    [] OTHER -> 200

NoResponse ==
  [route |-> Route("", ""), id |-> NULL, status |-> 0, error |-> "",
   message |-> "", logged |-> "", handled |-> FALSE, next |-> 0, userEntity |-> NoUser,
   queries |-> 0, cookie |-> NoToken, rows |-> <<>>]

\* The gate's rejection: the handler is never entered.
Rejection(route, g) ==
  [NoResponse EXCEPT !.route = route, !.status = 401,
     !.error = "UnauthorizedException", !.message = g.message]

\* The pipe's rejection.
Invalid(route, id, g) ==
  [NoResponse EXCEPT !.route = route, !.id = id, !.status = 400,
     !.error = "BadRequestException", !.message = "Validation failed",
     !.next = g.next, !.userEntity = g.userEntity]

\* The response of a handler that ran and came to service result r.
Response(route, id, user, calls, r) ==
  [route |-> route, id |-> id,
   status |-> IF r.error = "" THEN SuccessStatus(route) ELSE Status(r.error),
   error |-> r.error, message |-> r.message, logged |-> r.logged, handled |-> TRUE,
   next |-> calls,
   userEntity |-> user, queries |-> r.queries, cookie |-> r.cookie, rows |-> r.rows]

\* ----------------------------------------------------------------- inputs
EmailOf(i) == ToString(i) \o "@x.io"

PasswordOf(i) == "pw" \o ToString(i)

\* The largest expiry login can stamp on a token within the clock's range.
FarFuture == MaxTime + DateNow(MaxTime) + JWT_DURATION

Token(s, key, exp) == [sub |-> s, email |-> EmailOf(s), sig |-> key, exp |-> exp]

\* Tokens a client may present: well signed for every UserID the sequence can
\* hand out and for one it cannot, signed with another key, or expired.
TokenInputs ==
  {Token(s, SECRET_KEY, FarFuture) : s \in 1 .. MaxUserID + 1}
    \cup {Token(1, "forged", FarFuture), Token(1, SECRET_KEY, 0)}

HeaderInputs == {NoHeader, SchemeOnly} \cup {Bearer(tok) : tok \in TokenInputs}

UserInputs == 1 .. MaxUserID + 1

IdInputs == 1 .. MaxRows

CreateInputs(t) ==
  {[Title |-> ti, Content |-> co, CreatedAt |-> IF t = "Events" THEN NULL ELSE ca,
    Date |-> IF t = "Events" THEN ca ELSE NULL, Location |-> lo, CreatorID |-> cr,
    TargetID |-> ta, Parent |-> pa] :
     ti \in IF t = "Replies" THEN {""} ELSE {"", "T"},
     co \in {"", "C"},
     ca \in {NULL, 1},
     lo \in IF t = "Events" THEN {"", "L"} ELSE {""},
     cr \in {NULL, 1, MaxUserID + 1},
     ta \in IF t = "Replies" THEN {NULL, 1} ELSE {NULL},
     pa \in IF t = "Replies" THEN {"Topics", "Questions"} ELSE {""}}

UpdateInputs(t) ==
  {[Title |-> IF t = "Replies" THEN "" ELSE "T", Content |-> co,
    Date |-> IF t = "Events" THEN 2 ELSE NULL,
    Location |-> IF t = "Events" THEN "L" ELSE ""] : co \in {"", "C"}}

\* The header of a logged-in client: the content scenarios are those of
\* requests the gate lets through.
ContentHeaders == {Bearer(Token(1, SECRET_KEY, FarFuture))}

SeedUser(i) ==
  [UserID |-> i, FirstName |-> "F", Email |-> EmailOf(i), Password |-> hash(PasswordOf(i), 1)]

\* A like / unlike request between its counter update and its join-row write.
Pending(op, t, id, u, g) ==
  [op |-> op, table |-> t, id |-> id, UserID |-> u, userEntity |-> g.userEntity,
   next |-> g.next]

Counter(d, t, id) == RowOf(d, t, id).LikesNb

\* A content item, named by its table and primary key.
Item(t, id) == [table |-> t, id |-> id]

\* The route of a create request: replies have one per kind of parent.
CreateRoute(t, dto) ==
  Route(t, IF t # "Replies" THEN "create"
           ELSE IF dto.Parent = "Topics" THEN "createForTopic" ELSE "createForQuestion")

\* ---------------------------------------------------------------- actions
\* A request the gate turns away.
Reject(route, g) ==
  /\ resp' = Rejection(route, g)
  /\ UNCHANGED <<db, inflight, failed, now>>

\* A handler that runs to its end in one step.
Handle(route, id, g, r) ==
  /\ db' = r.db
  /\ resp' = Response(route, id, g.userEntity, g.next, r)
  /\ UNCHANGED <<inflight, failed, now>>

\* likeTopic / likeQuestion / likeEvent / likeReply up to the first await's
\* result: the gate, then the counter update.
likeX(t, id, u, h) ==
  LET route == Route(t, "like")
      g == Gate(route, db, h, now)
      r == likeUpdate(db, t, id)
  IN /\ BagCardinality(inflight) < MaxInflight
     /\ id \in IDs(db, t) => Counter(db, t, id) < MaxCount
     /\ IF ~g.admitted THEN Reject(route, g)
        ELSE IF r.error # "" THEN Handle(route, id, g, r)
        ELSE /\ db' = r.db
             /\ inflight' = inflight (+) SetToBag({Pending("like", t, id, u, g)})
             /\ UNCHANGED <<resp, failed, now>>

\* ... and from the second await on: the join-row insert.
likeXJoin(q) ==
  LET route == Route(q.table, "like")
      r == likeCreate(db, q.table, q.id, q.UserID)
  IN /\ q.op = "like"
     /\ BagIn(q, inflight)
     /\ db' = r.db
     /\ inflight' = inflight (-) SetToBag({q})
     /\ resp' = Response(route, q.id, q.userEntity, q.next, r)
     /\ failed' = IF r.error # "" THEN failed \cup {Item(q.table, q.id)} ELSE failed
     /\ UNCHANGED now

unlikeX(t, id, u, h) ==
  LET route == Route(t, "unlike")
      g == Gate(route, db, h, now)
      r == unlikeUpdate(db, t, id)
  IN /\ BagCardinality(inflight) < MaxInflight
     /\ id \in IDs(db, t) => Counter(db, t, id) > -MaxCount
     /\ IF ~g.admitted THEN Reject(route, g)
        ELSE IF r.error # "" THEN Handle(route, id, g, r)
        ELSE /\ db' = r.db
             /\ inflight' = inflight (+) SetToBag({Pending("unlike", t, id, u, g)})
             /\ UNCHANGED <<resp, failed, now>>

unlikeXJoin(q) ==
  LET route == Route(q.table, "unlike")
      r == unlikeDelete(db, q.table, q.id, q.UserID)
  IN /\ q.op = "unlike"
     /\ BagIn(q, inflight)
     /\ db' = r.db
     /\ inflight' = inflight (-) SetToBag({q})
     /\ resp' = Response(route, q.id, q.userEntity, q.next, r)
     /\ failed' = IF r.error # "" THEN failed \cup {Item(q.table, q.id)} ELSE failed
     /\ UNCHANGED now

Gated(route, id, h, r) ==
  LET g == Gate(route, db, h, now)
  IN IF g.admitted THEN Handle(route, id, g, r) ELSE Reject(route, g)

\* A request with a body: the gate, then the ValidationPipe, then the handler.
Validated(route, id, h, body, r) ==
  LET g == Gate(route, db, h, now)
  IN IF ~g.admitted THEN Reject(route, g)
     ELSE IF ~ValidationPipe(route, body)
     THEN /\ resp' = Invalid(route, id, g)
          /\ UNCHANGED <<db, inflight, failed, now>>
     ELSE Handle(route, id, g, r)

saveTopic(t, id, u, h) ==
  /\ t \in Saveable
  /\ Gated(Route(t, "save"), id, h, saveX(db, t, id, u))

unsaveTopic(t, id, u, h) ==
  /\ t \in Saveable
  /\ Gated(Route(t, "unsave"), id, h, unsaveX(db, t, id, u))

createX(t, dto, h) ==
  /\ RowsInserted(db) < MaxRows
  /\ Gated(CreateRoute(t, dto), NULL, h, create(db, t, dto))

getOneX(t, id, h) ==
  /\ "getOne" \in ContentOps(t)
  /\ Gated(Route(t, "getOne"), id, h, getOne(db, t, id))

deleteX(t, id, h) == Gated(Route(t, "delete"), id, h, delete(db, t, id))

updateX(t, id, dto, h) == Validated(Route(t, "update"), id, h, dto, update(db, t, id, dto))

getAllX(t, h) ==
  /\ "getAll" \in ContentOps(t)
  /\ Gated(Route(t, "getAll"), NULL, h, getAll(db, t))

\* The route of a filter request: replies are listed per kind of parent.
FilterRoute(t, parent) ==
  Route(t, IF t # "Replies" THEN "filtered"
           ELSE IF parent = "Topics" THEN "filteredForTopic" ELSE "filteredForQuestion")

filteredX(t, parent, q, arg, h) ==
  \E fetched \in Orders(findMany(db, t, parent, arg)) :
    Gated(FilterRoute(t, parent), NULL, h, filtered(db, t, q, fetched))

signUp(userData, salt) ==
  /\ db.seq["User"] < MaxUserID
  /\ Validated(Route("User", "signup"), NULL, NoHeader, userData, signup(db, userData, salt))

logIn(loginDto, h) ==
  Validated(Route("User", "login"), NULL, h, loginDto,
            login(db, loginDto.Email, loginDto.Password, now))

\* A logout that revokes on the server: the account the token names is
\* removed from the table the gate resolves subjects against.
logOutRevokes(h) ==
  LET route == Route("User", "logout")
      g == Gate(route, db, h, now)
      revoked == [db EXCEPT !.User = @ \ {g.userEntity}]
  IN IF g.admitted THEN Handle(route, NULL, [g EXCEPT !.userEntity = NoUser], Return(revoked, 1))
     ELSE Reject(route, g)

\* logOut: req.userEntity = null, the cookie header emptied.
logOut(h) ==
  LET route == Route("User", "logout")
      g == Gate(route, db, h, now)
  IN IF g.admitted THEN Handle(route, NULL, [g EXCEPT !.userEntity = NoUser], Return(db, 0))
     ELSE Reject(route, g)

getOneUserX(uid, h) == Gated(Route("User", "getOne"), uid, h, getOneUser(db, uid))

getAllUsersX(h) == Gated(Route("User", "getAll"), NULL, h, getAllUsers(db))

deleteUserX(uid, h) == Gated(Route("User", "delete"), uid, h, deleteUser(db, uid))

updateUserX(editDto, salt, h) ==
  Validated(Route("User", "update"), editDto.UserID, h, editDto,
            updateUser(db, editDto.UserID, editDto, salt))

\* A second of the clock.
Tick ==
  /\ now < MaxTime
  /\ now' = now + 1
  /\ UNCHANGED <<db, inflight, resp, failed>>

\* ---------------------------------------------------------- specification
\* The users of the interaction scenarios: MaxUserID signups have succeeded.
SeededUsers ==
  [EmptyDB EXCEPT !.User = {SeedUser(i) : i \in 1 .. MaxUserID}, !.seq["User"] = MaxUserID]

\* A reply whose parent topic has been deleted since (TopicID set to NULL).
OrphanReply ==
  [ID |-> 1, Title |-> "", Content |-> "C", CreatedAt |-> 1, Date |-> NULL, Location |-> "",
   CreatorID |-> 1, LikesNb |-> 0, TopicID |-> NULL, QuestionID |-> NULL]

\* Either no content yet, or one topic and its reply inserted and the topic
\* deleted again.
Init ==
  /\ db \in {SeededUsers,
             [SeededUsers EXCEPT !.Replies = {OrphanReply},
                                 !.seq["Topics"] = 1, !.seq["Replies"] = 1]}
  /\ inflight = EmptyBag
  /\ resp = NoResponse
  /\ failed = {}
  /\ now = 0

Next ==
  \/ \E t \in Tables, id \in IdInputs, u \in UserInputs, h \in ContentHeaders : likeX(t, id, u, h)
  \/ \E q \in BagToSet(inflight) : likeXJoin(q)
  \/ \E t \in Tables, id \in IdInputs, u \in UserInputs, h \in ContentHeaders : unlikeX(t, id, u, h)
  \/ \E q \in BagToSet(inflight) : unlikeXJoin(q)
  \/ \E t \in Tables, h \in ContentHeaders : \E dto \in CreateInputs(t) : createX(t, dto, h)
  \/ \E t \in Tables, id \in IdInputs, h \in ContentHeaders : getOneX(t, id, h)
  \/ \E t \in Tables, id \in IdInputs, h \in ContentHeaders : deleteX(t, id, h)
  \/ \E t \in Tables, id \in IdInputs, h \in ContentHeaders :
       \E dto \in UpdateInputs(t) : updateX(t, id, dto, h)

Spec == Init /\ [][Next]_vars

\* ----------------------------------------------- the like / unlike scenarios
\* A row as create inserts it (a reply: after its parent has been deleted).
SeedRow(t, id) ==
  ContentRow(t, id, [Title |-> "T", Content |-> "C", CreatedAt |-> 1, Date |-> 1,
                     Location |-> "L", CreatorID |-> 1, TargetID |-> NULL, Parent |-> ""])

\* The store with the users signed up and one item posted in table t.
Seeded(t) ==
  [SeededUsers EXCEPT
     ![t] = {SeedRow(t, 1)},
     !.seq = [x \in DOMAIN @ |-> IF x = t \/ (t = "Replies" /\ x = "Topics") THEN 1 ELSE @[x]]]

InitLikes ==
  /\ db \in {Seeded(t) : t \in Tables}
  /\ inflight = EmptyBag
  /\ resp = NoResponse
  /\ failed = {}
  /\ now = 0

\* Any sequence of like and unlike requests, their two round-trips interleaved.
NextLikes ==
  \/ \E t \in Tables, u \in UserInputs, h \in ContentHeaders : likeX(t, 1, u, h)
  \/ \E q \in BagToSet(inflight) : likeXJoin(q)
  \/ \E t \in Tables, u \in UserInputs, h \in ContentHeaders : unlikeX(t, 1, u, h)
  \/ \E q \in BagToSet(inflight) : unlikeXJoin(q)

SpecLikes == InitLikes /\ [][NextLikes]_vars

\* ------------------------------------------------ the like / save scenarios
\* Like requests, their two round-trips interleaved, with save, unsave and
\* delete requests in between.
NextPairs ==
  \/ \E t \in Tables, u \in UserInputs, h \in ContentHeaders : likeX(t, 1, u, h)
  \/ \E q \in BagToSet(inflight) : likeXJoin(q)
  \/ \E t \in Tables, u \in UserInputs, h \in ContentHeaders : saveTopic(t, 1, u, h)
  \/ \E t \in Tables, u \in UserInputs, h \in ContentHeaders : unsaveTopic(t, 1, u, h)
  \/ \E t \in Tables, h \in ContentHeaders : deleteX(t, 1, h)

SpecPairs == InitLikes /\ [][NextPairs]_vars

\* ------------------------------------------------- the accounts scenarios
SaltInputs == {1, 2}

SignupInputs ==
  {[FirstName |-> "F", Email |-> e, Password |-> pw] :
     e \in {"", "nomail", EmailOf(1), EmailOf(2)}, pw \in {"", PasswordOf(1)}}

LoginInputs ==
  {[Email |-> e, Password |-> pw] :
     e \in {"", EmailOf(1), EmailOf(2)}, pw \in {"", PasswordOf(1), PasswordOf(2)}}

EditInputs ==
  {[UserID |-> uid, FirstName |-> "", Password |-> pw] :
     uid \in UserInputs, pw \in {"", PasswordOf(2)}}

\* A create body with every field left out.
BlankDto(parent) ==
  [Title |-> "", Content |-> "", CreatedAt |-> NULL, Date |-> NULL, Location |-> "",
   CreatorID |-> NULL, TargetID |-> NULL, Parent |-> parent]

Parents(t) == IF t = "Replies" THEN {"Topics", "Questions"} ELSE {""}

\* The headers a client may send: the inputs, and the token login last issued.
Headers == HeaderInputs \cup (IF resp.cookie = NoToken THEN {} ELSE {Bearer(resp.cookie)})

\* The headers tried on the content routes: none, an expired token, a good one.
FewHeaders ==
  {NoHeader, Bearer(Token(1, SECRET_KEY, 0)), Bearer(Token(1, SECRET_KEY, FarFuture))}

\* The store before the first signup.
InitAuth ==
  /\ db = EmptyDB
  /\ inflight = EmptyBag
  /\ resp = NoResponse
  /\ failed = {}
  /\ now = 0

\* Every route of the API, requested with every header, while accounts are
\* signed up, edited and deleted and no content has been posted.
NextAuth ==
  \/ \E userData \in SignupInputs, salt \in SaltInputs : signUp(userData, salt)
  \/ \E loginDto \in LoginInputs : logIn(loginDto, NoHeader)
  \/ \E h \in Headers : logOut(h)
  \/ \E uid \in UserInputs, h \in Headers : getOneUserX(uid, h)
  \/ \E h \in Headers : getAllUsersX(h)
  \/ \E uid \in UserInputs, h \in Headers : deleteUserX(uid, h)
  \/ \E editDto \in EditInputs, h \in Headers : updateUserX(editDto, 2, h)
  \/ Tick
  \/ \E t \in Tables, h \in FewHeaders : likeX(t, 1, 1, h)
  \/ \E t \in Tables, h \in FewHeaders : unlikeX(t, 1, 1, h)
  \/ \E t \in Tables, h \in FewHeaders : saveTopic(t, 1, 1, h)
  \/ \E t \in Tables, h \in FewHeaders : unsaveTopic(t, 1, 1, h)
  \/ \E t \in Tables, h \in FewHeaders : getAllX(t, h)
  \/ \E t \in Tables, h \in FewHeaders : \E pa \in Parents(t), q \in {Param("all"), Absent} :
       filteredX(t, pa, q, IF t = "Replies" THEN Param(1) ELSE Absent, h)
  \/ \E t \in Tables, h \in FewHeaders : \E pa \in Parents(t) : createX(t, BlankDto(pa), h)
  \/ \E t \in Tables, h \in FewHeaders : getOneX(t, 1, h)
  \/ \E t \in Tables, h \in FewHeaders : deleteX(t, 1, h)
  \/ \E t \in Tables, h \in FewHeaders : \E dto \in UpdateInputs(t) : updateX(t, 1, dto, h)

SpecAuth == InitAuth /\ [][NextAuth]_vars

\* ----------------------------------------------------- the list scenarios
\* The create bodies of the rows to list, with the count of likes each has
\* received since.
ListInputs(t) ==
  {[Title |-> IF t = "Replies" THEN "" ELSE IF st = 1 THEN "b" ELSE "Undefined",
    Content |-> IF t # "Replies" THEN "C" ELSE IF st = 1 THEN "b" ELSE "A",
    CreatedAt |-> IF t = "Events" THEN NULL ELSE st,
    Date |-> IF t = "Events" THEN st ELSE NULL,
    Location |-> IF t = "Events" THEN "L" ELSE "",
    CreatorID |-> 1,
    TargetID |-> IF t = "Replies" THEN 1 ELSE NULL,
    Parent |-> pa,
    LikesNb |-> li] :
     st \in {1, 2},
     li \in {0, 1},
     pa \in Parents(t)}

\* The store after the bodies of seq `posted` have been created in table t,
\* in that order, and user 1 has liked and saved those with LikesNb = 1.
\* Replies hang on topic 1 or question 1.
Listed(t, posted) ==
  LET n == Len(posted)
      parents == IF t = "Replies" THEN {"Topics", "Questions"} ELSE {}
      liked == {i \in 1 .. n : posted[i].LikesNb = 1}
  IN [SeededUsers EXCEPT
        ![t] = {[ContentRow(t, id, posted[id]) EXCEPT !.LikesNb = posted[id].LikesNb] :
                  id \in 1 .. n},
        !.Likes = SetToBag({LikeRow(t, id, 1) : id \in liked}),
        !.Saved = IF t \in Saveable THEN SetToBag({SavedRow(t, id, 1) : id \in liked}) ELSE @,
        !.Topics = IF "Topics" \in parents THEN {SeedRow("Topics", 1)} ELSE @,
        !.Questions = IF "Questions" \in parents THEN {SeedRow("Questions", 1)} ELSE @,
        !.seq = [x \in DOMAIN @ |-> IF x = t THEN n ELSE IF x \in parents THEN 1 ELSE @[x]]]

QInputs == {Param(v) : v \in Filters \cup {"ALL"}} \cup {Absent}

\* The search text of a title filter, the parent ID of a reply filter.
ArgInputs(t) == IF t = "Replies" THEN {Param(1), Param(2)} ELSE {Absent, Param(""), Param("U")}

InitList ==
  /\ db \in UNION {{Listed(t, posted) : posted \in [1 .. n -> ListInputs(t)]} :
                     <<t, n>> \in Tables \X (0 .. MaxListed)}
  /\ inflight = EmptyBag
  /\ resp = NoResponse
  /\ failed = {}
  /\ now = 0

\* The list requests of every kind, with every q and every search.
NextList ==
  \/ \E t \in Tables, q \in QInputs, h \in ContentHeaders :
       \E pa \in Parents(t), arg \in ArgInputs(t) : filteredX(t, pa, q, arg, h)
  \/ \E t \in Tables, h \in ContentHeaders : getAllX(t, h)

SpecList == InitList /\ [][NextList]_vars

\* ------------------------------------------- the create / update scenarios
\* The stores of the list scenarios: up to MaxListed rows posted in one
\* table, some of them liked and saved.
InitEdit == InitList

\* Create requests with every body, complete or not, and update requests on
\* the rows and past them.
NextEdit ==
  \/ \E t \in Tables, h \in ContentHeaders : \E dto \in CreateInputs(t) : createX(t, dto, h)
  \/ \E t \in Tables, id \in 1 .. MaxListed + 1, h \in ContentHeaders :
       \E dto \in UpdateInputs(t) : updateX(t, id, dto, h)

SpecEdit == InitEdit /\ [][NextEdit]_vars

\* ------------------------------------------------- the ownership scenarios
\* User 1 has posted an item; user 2 likes and saves it, the item is deleted,
\* and the deletion of either account is requested at any point.
NextOwners ==
  \/ \E t \in Tables, h \in ContentHeaders : likeX(t, 1, 2, h)
  \/ \E q \in BagToSet(inflight) : likeXJoin(q)
  \/ \E t \in Tables, h \in ContentHeaders : saveTopic(t, 1, 2, h)
  \/ \E t \in Tables, h \in ContentHeaders : deleteX(t, 1, h)
  \/ \E uid \in 1 .. 3, h \in ContentHeaders : deleteUserX(uid, h)

SpecOwners == InitLikes /\ [][NextOwners]_vars

\* ---------------------------------------------------- the reply scenarios
\* createForTopic / createForQuestion, while fewer than MaxListed replies
\* have been posted.
createForX(dto, h) ==
  /\ db.seq["Replies"] < MaxListed
  /\ Gated(CreateRoute("Replies", dto), NULL, h, create(db, "Replies", dto))

\* The store with the users signed up, one topic and one question posted.
InitReplies ==
  /\ db = [SeededUsers EXCEPT !.Topics = {SeedRow("Topics", 1)},
                              !.Questions = {SeedRow("Questions", 1)},
                              !.seq["Topics"] = 1, !.seq["Questions"] = 1]
  /\ inflight = EmptyBag
  /\ resp = NoResponse
  /\ failed = {}
  /\ now = 0

\* Replies are posted on the topic and on the question, and topics, questions
\* and replies are deleted.
NextReplies ==
  \/ \E dto \in CreateInputs("Replies"), h \in ContentHeaders : createForX(dto, h)
  \/ \E t \in {"Topics", "Questions", "Replies"}, id \in 1 .. MaxListed, h \in ContentHeaders :
       deleteX(t, id, h)

SpecReplies == InitReplies /\ [][NextReplies]_vars

\* ------------------------------------------------------------- properties
\* The number of Like rows that reference item (t, id).
LikeRows(d, t, id) ==
  LET to == {r \in BagToSet(d.Likes) : r[Column(t)] = id}
  IN BagCardinality([r \in to |-> CopiesIn(r, d.Likes)])

Quiescent == inflight = EmptyBag

\* The content items in the store.
Existing(d) == UNION {{Item(t, id) : id \in IDs(d, t)} : t \in Tables}

InternalError(r) ==
  r.error = "InternalServerErrorException" /\ Status(r.error) = 500

\* C1 as stated: in every quiescent state (no like / unlike request in
\* flight) the LikesNb stored on each item equals the number of Like rows that
\* reference the item.
C1_CounterEqualsLikeRows ==
  Quiescent => \A i \in Existing(db) : Counter(db, i.table, i.id) = LikeRows(db, i.table, i.id)

\* C1 as amended: in every quiescent state the LikesNb of each item on which
\* no like / unlike request has failed at its join-row step equals the number
\* of Like rows that reference the item.
C1_CounterEqualsLikeRowsUnlessFailed ==
  Quiescent =>
    \A i \in Existing(db) \ failed : Counter(db, i.table, i.id) = LikeRows(db, i.table, i.id)

\* Two users have liked an item, nothing is in flight and nothing has failed.
C1_Witness ==
  /\ Quiescent
  /\ failed = {}
  /\ resp.route.op = "like" /\ resp.status = 201
  /\ \E i \in Existing(db) : Counter(db, i.table, i.id) = 2 /\ LikeRows(db, i.table, i.id) = 2

\* C2: like on an existing target by an existing user with no Like row for it
\* completes without error, raises the target's LikesNb by exactly 1 and adds
\* exactly one Like row (target, user); an item just created has LikesNb = 0
\* (create reads no request in flight: it is applied to the quiescent stores).
C2_LikeAddsOne ==
  /\ \A i \in Existing(db), u \in UserIDs(db) :
        \A row \in {LikeRow(i.table, i.id, u)} :
          ~BagIn(row, db.Likes) =>
            \A r \in {like(db, i.table, i.id, u)} :
              /\ r.error = ""
              /\ Counter(r.db, i.table, i.id) = Counter(db, i.table, i.id) + 1
              /\ r.db.Likes = db.Likes (+) SetToBag({row})
              /\ CopiesIn(row, r.db.Likes) = 1
              /\ LikeRows(r.db, i.table, i.id) = LikeRows(db, i.table, i.id) + 1
  /\ Quiescent =>
        \A t \in Tables : \A dto \in CreateInputs(t) :
          \A r \in {create(db, t, dto)} :
            r.error = "" => \A n \in r.db[t] \ db[t] : n.LikesNb = 0

\* A like has been answered 201 on an item whose counter is 1, with one Like
\* row, and no like or unlike has failed on it.
C2_Witness ==
  /\ Quiescent
  /\ failed = {}
  /\ resp.route.op = "like" /\ resp.status = 201 /\ resp.queries = 2
  /\ Item(resp.route.table, resp.id) \in Existing(db)
  /\ Counter(db, resp.route.table, resp.id) = 1
  /\ LikeRows(db, resp.route.table, resp.id) = 1

\* C3: for every (target, user) pair with no Like row, like followed by
\* unlike with no other request in between restores the target's LikesNb and
\* leaves no Like row for the pair.
C3_LikeThenUnlikeRestores ==
  Quiescent =>
    \A i \in Existing(db), u \in UserInputs :
      \A row \in {LikeRow(i.table, i.id, u)} :
        ~BagIn(row, db.Likes) =>
          \A liked \in {like(db, i.table, i.id, u)} :
            \A unliked \in {unlike(liked.db, i.table, i.id, u)} :
              /\ Counter(unliked.db, i.table, i.id) = Counter(db, i.table, i.id)
              /\ ~BagIn(row, unliked.db.Likes)

\* An unlike has been answered 201 (so a like had put the row there), and the
\* item is back at counter 0 with no Like row.
C3_Witness ==
  /\ Quiescent
  /\ failed = {}
  /\ resp.route.op = "unlike" /\ resp.status = 201 /\ resp.queries = 2
  /\ Item(resp.route.table, resp.id) \in Existing(db)
  /\ Counter(db, resp.route.table, resp.id) = 0
  /\ db.Likes = EmptyBag

\* C4: like for a (target, user) pair that already has its Like row fails
\* with InternalError, on the unique (target, UserID) constraint, and adds no
\* second row.
C4_SecondLikeFails ==
  \A i \in Existing(db), u \in UserInputs :
    LET row == LikeRow(i.table, i.id, u)
        r == like(db, i.table, i.id, u)
        join == likeCreate(db, i.table, i.id, u)
    IN BagIn(row, db.Likes) =>
         /\ InternalError(r) /\ r.logged = "P2002"
         /\ InternalError(join) /\ join.logged = "P2002"
         /\ r.db.Likes = db.Likes

\* A like has been answered 500 on the unique constraint while the pair's row
\* is in place.
C4_Witness ==
  /\ resp.route.op = "like" /\ resp.status = 500 /\ resp.logged = "P2002"
  /\ resp.error = "InternalServerErrorException"
  /\ LikeRows(db, resp.route.table, resp.id) = 1

\* C5: getOne, update and delete on an ID that does not exist (Topic,
\* Question, Event, Reply, User) fail with NotFound, never with InternalError,
\* and change no row.
C5_MissingIDIsNotFound ==
  /\ \A t \in Tables, id \in IdInputs : \A dto \in UpdateInputs(t) :
        id \notin IDs(db, t) =>
          /\ "getOne" \in ContentOps(t) => getOne(db, t, id).error = "NotFoundException"
          /\ update(db, t, id, dto).error = "NotFoundException"
          /\ delete(db, t, id).error = "NotFoundException"
          /\ update(db, t, id, dto).db = db /\ delete(db, t, id).db = db
  /\ \A uid \in UserInputs \ UserIDs(db) :
        /\ getOneUser(db, uid).error = "NotFoundException"
        /\ deleteUser(db, uid).error = "NotFoundException"
        /\ deleteUser(db, uid).db = db

\* The token of a header, if it carries one.
TokenOf(h) == IF h.present /\ Len(h.parts) >= 2 THEN h.parts[2] ELSE NoToken

\* A token that passes verification: signed with the server's key, not expired.
Verifies(tok) == tok # NoToken /\ tok.sig = SECRET_KEY /\ now < tok.exp

Public == {Route("User", "signup"), Route("User", "login")}

\* C6: the gate answers Unauthorized "No token provided" to a request with no
\* token and Unauthorized "Invalid token" to one whose token fails the
\* signature or expiry check; the handler is not invoked and no user is attached.
C6_GateRejectsMissingOrInvalidToken ==
  /\ \A h \in Headers :
        LET g == JwtMiddleware(db, h, now)
        IN /\ TokenOf(h) = NoToken =>
                ~g.admitted /\ g.message = "No token provided"
                  /\ g.next = 0 /\ g.userEntity = NoUser
           /\ TokenOf(h) # NoToken /\ ~Verifies(TokenOf(h)) =>
                ~g.admitted /\ g.message = "Invalid token"
                  /\ g.next = 0 /\ g.userEntity = NoUser
  /\ resp.status = 401 /\ resp.message \in {"No token provided", "Invalid token"} =>
        /\ resp.error = "UnauthorizedException"
        /\ ~resp.handled /\ resp.next = 0 /\ resp.queries = 0
        /\ resp.userEntity = NoUser

\* An account exists and a request has just been turned away as 'Invalid token'.
C6_Witness ==
  /\ db.User # {}
  /\ resp.status = 401 /\ resp.message = "Invalid token" /\ ~resp.handled
  /\ \E h \in Headers : TokenOf(h) # NoToken /\ ~Verifies(TokenOf(h))

\* C7: when the token verifies but its subject is no existing user, the gate
\* answers Unauthorized with the message "User does not exist", not "Invalid
\* token".
C7_UnknownSubjectMessage ==
  \A h \in Headers :
    LET g == JwtMiddleware(db, h, now)
    IN Verifies(TokenOf(h)) /\ TokenOf(h).sub \notin UserIDs(db) =>
         ~g.admitted /\ g.message \in {"User does not exist", "User does not exist."}

\* C8: when the token verifies and its subject is an existing user, the gate
\* attaches the user record whose UserID is the subject and calls the
\* downstream handler once.
C8_GateAttachesSubject ==
  /\ \A h \in Headers :
        LET g == JwtMiddleware(db, h, now)
        IN Verifies(TokenOf(h)) /\ TokenOf(h).sub \in UserIDs(db) =>
             /\ g.admitted /\ g.next = 1
             /\ g.userEntity \in db.User
             /\ g.userEntity.UserID = TokenOf(h).sub
  /\ resp.handled /\ resp.route \notin Public => resp.next = 1

\* With two accounts in the store, a request of the second one has passed the
\* gate and reached its handler with that account attached.
C8_Witness ==
  /\ Cardinality(db.User) = 2
  /\ resp.handled /\ resp.route \notin Public /\ resp.next = 1
  /\ resp.userEntity \in db.User /\ resp.userEntity.UserID = 2

Plain(user) == user.Password.digest[1]

\* C10: login fails with BadRequest when Email or Password is missing, before
\* any user lookup; with NotFound when no user has the email; with
\* Unauthorized when the password is not the account's; no token is issued in
\* any of these cases.
C10_LoginFailures ==
  /\ \A body \in LoginInputs :
        LET r == login(db, body.Email, body.Password, now)
            found == UserByEmail(db, body.Email)
        IN /\ body.Email = "" \/ body.Password = "" =>
                r.error = "BadRequestException" /\ r.queries = 0 /\ r.cookie = NoToken
           /\ body.Email # "" /\ body.Password # "" /\ found = {} =>
                r.error = "NotFoundException" /\ r.cookie = NoToken
           /\ body.Email # "" /\ body.Password # "" /\ found # {}
                /\ (\A u \in found : Plain(u) # body.Password) =>
                r.error = "UnauthorizedException" /\ r.cookie = NoToken
  /\ resp.route = Route("User", "login") /\ resp.status = 400 =>
        resp.queries = 0 /\ resp.cookie = NoToken
  /\ resp.route = Route("User", "login") /\ resp.status \in {401, 404} =>
        resp.cookie = NoToken

\* A login with the email of an account and another password has been
\* answered 401 without a token.
C10_Witness ==
  /\ resp.route = Route("User", "login")
  /\ resp.status = 401 /\ resp.handled /\ resp.cookie = NoToken
  /\ db.User # {}

\* C11: after signup has succeeded for a payload whose email was not in use,
\* a later login with that email and password succeeds and returns a token
\* whose subject is the UserID of the user signup created, as long as the
\* account's row is the one signup wrote.
C11_SignupThenLogin ==
  /\ \A userData \in SignupInputs, salt \in SaltInputs :
        LET r == signup(db, userData, salt)
            created == r.db.User \ db.User
        IN ValidationPipe(Route("User", "signup"), userData)
             /\ UserByEmail(db, userData.Email) = {} =>
             /\ r.error = ""
             /\ Cardinality(created) = 1
             /\ \A u \in created : \A time \in now .. MaxTime :
                  LET l == login(r.db, userData.Email, userData.Password, time)
                  IN /\ ValidationPipe(Route("User", "login"),
                                       [Email |-> userData.Email, Password |-> userData.Password])
                     /\ l.error = ""
                     /\ l.cookie # NoToken
                     /\ l.cookie.sub = u.UserID
  /\ \A u \in db.User : \A time \in now .. MaxTime :
        LET l == login(db, u.Email, Plain(u), time)
        IN l.error = "" /\ l.cookie # NoToken /\ l.cookie.sub = u.UserID
  /\ resp.route = Route("User", "login") /\ resp.status = 200 =>
        /\ resp.cookie # NoToken
        /\ \E u \in db.User : u.UserID = resp.cookie.sub /\ u.Email = resp.cookie.email

\* Two accounts have signed up and the second has just logged in: the token
\* carries its UserID.
C11_Witness ==
  /\ Cardinality(db.User) = 2
  /\ resp.route = Route("User", "login") /\ resp.status = 200
  /\ resp.cookie.sub = 2
  /\ \E u \in db.User : u.UserID = 2 /\ u.Email = resp.cookie.email /\ Plain(u) = PasswordOf(1)

\* C12: signup with Email or Password missing fails with BadRequest (400),
\* signup with an email a user already holds fails with Unauthorized (401),
\* and in both cases no User row is created or changed.
C12_SignupFailures ==
  /\ \A userData \in SignupInputs, salt \in SaltInputs :
        LET r == signup(db, userData, salt)
        IN /\ userData.Email = "" \/ userData.Password = "" =>
                /\ r.error = "BadRequestException" /\ Status(r.error) = 400
                /\ ~ValidationPipe(Route("User", "signup"), userData)
                /\ Invalid(Route("User", "signup"), NULL, Admitted(NoUser, 0)).status = 400
                /\ r.queries = 0
                /\ r.db = db
           /\ userData.Email # "" /\ userData.Password # ""
                /\ UserByEmail(db, userData.Email) # {} =>
                /\ r.error = "UnauthorizedException" /\ Status(r.error) = 401
                /\ r.queries = 1
                /\ r.db = db
  /\ resp.route = Route("User", "signup") /\ resp.status = 400 => resp.queries = 0
  /\ resp.route = Route("User", "signup") /\ resp.status = 401 =>
        /\ resp.message = "Email exists" /\ resp.queries = 1
        /\ db.User # {}

\* A signup with the email of an existing account has been answered 401 and
\* the account is still the only one.
C12_Witness ==
  /\ resp.route = Route("User", "signup")
  /\ resp.status = 401 /\ resp.message = "Email exists" /\ resp.handled
  /\ Cardinality(db.User) = 1 /\ db.seq["User"] = 1

\* The routes of the five filter endpoints.
FilterRoutes == UNION {{FilterRoute(t, pa) : pa \in Parents(t)} : t \in Tables}

\* C13: on every filter endpoint (topics, questions, events, replies of a
\* topic, replies of a question) a q outside {all, popular, recent, name, old},
\* an absent q included, fails with BadRequest, and neither the service nor
\* the persistence layer is called.
C13_InvalidFilterIsBadRequest ==
  /\ \A t \in Tables : \A pa \in Parents(t) :
        \A found \in {findMany(db, t, pa, arg) : arg \in ArgInputs(t)} :
          \A fetched \in Orders(found), q \in QInputs :
            ~q.present \/ q.value \notin {"all", "popular", "recent", "name", "old"} =>
              \A r \in {filtered(db, t, q, fetched)} :
                /\ r.error = "BadRequestException" /\ Status(r.error) = 400
                /\ r.queries = 0
                /\ r.rows = <<>>
                /\ r.db = db
  /\ Cardinality(FilterRoutes) = 5
  /\ resp.route \in FilterRoutes /\ resp.status # 200 =>
        /\ resp.status = 400 /\ resp.error = "BadRequestException"
        /\ resp.message = "Invalid Query Parameter"
        /\ resp.queries = 0 /\ resp.rows = <<>>

\* A filter request for the replies of a topic that has replies has been
\* answered 400 without a query.
C13_Witness ==
  /\ resp.route = Route("Replies", "filteredForTopic")
  /\ resp.status = 400 /\ resp.message = "Invalid Query Parameter" /\ resp.queries = 0
  /\ findMany(db, "Replies", "Topics", Param(1)) # {}

\* The items of a sequence.
Range(s) == {s[i] : i \in 1 .. Len(s)}

\* C14: for every kind of resource, the list of mode popular holds the
\* candidate items in an order in which the like counter of each item is
\* greater than or equal to that of the next.
C14_PopularIsDescendingByLikes ==
  \A t \in Tables : \A pa \in Parents(t) :
    \A found \in {findMany(db, t, pa, arg) : arg \in ArgInputs(t)} :
      \A fetched \in Orders(found) :
        \A r \in {filtered(db, t, Param("popular"), fetched)} :
          /\ r.error = ""
          /\ Range(r.rows) = found
          /\ \A i \in 1 .. Len(r.rows) - 1 : r.rows[i].LikesNb >= r.rows[i + 1].LikesNb

\* A list request has been answered with the rows popular makes of a fetch
\* that had the less liked row first.
C14_Witness ==
  \E t \in Tables : \E pa \in Parents(t), arg \in ArgInputs(t) :
    \E fetched \in Orders(findMany(db, t, pa, arg)) :
      /\ resp.route = FilterRoute(t, pa) /\ resp.status = 200
      /\ Len(fetched) = 2 /\ fetched[1].LikesNb < fetched[2].LikesNb
      /\ resp.rows = filtered(db, t, Param("popular"), fetched).rows
      /\ resp.rows = <<fetched[2], fetched[1]>>

\* When a row was created: the CreatedAt it was posted with; events store no
\* creation timestamp, their serial EventID is handed out in creation order.
Created(t, r) == IF t = "Events" THEN r.ID ELSE r.CreatedAt

\* A sequence of numbers in descending, in ascending order.
Descending(ks) == \A i \in 1 .. Len(ks) - 1 : ks[i] >= ks[i + 1]

Ascending(ks) == \A i \in 1 .. Len(ks) - 1 : ks[i] <= ks[i + 1]

Occurrences(s, x) == Cardinality({i \in 1 .. Len(s) : s[i] = x})

\* C16: the list of mode all is the fetched candidate sequence, unchanged
\* (the same items in the same order); the list of every other mode is a
\* permutation of the fetched candidates: sorting drops no item and
\* duplicates none.
C16_AllIsFetchedOthersPermute ==
  \A t \in Tables : \A pa \in Parents(t) :
    \A found \in {findMany(db, t, pa, arg) : arg \in ArgInputs(t)} :
      \A fetched \in Orders(found) :
        /\ \A r \in {filtered(db, t, Param("all"), fetched)} :
             r.error = "" /\ r.rows = fetched
        /\ \A q \in {"popular", "recent", "name", "old"} :
             \A r \in {filtered(db, t, Param(q), fetched)} :
               /\ r.error = ""
               /\ Len(r.rows) = Len(fetched)
               /\ \A x \in found \cup Range(r.rows) :
                    Occurrences(r.rows, x) = Occurrences(fetched, x)

\* A list request has been answered with the two candidates exchanged by
\* name, and one with the two candidates, equal under popular, as fetched.
C16_Witness ==
  \E t \in Tables : \E pa \in Parents(t), arg \in ArgInputs(t) :
    \E fetched \in Orders(findMany(db, t, pa, arg)) :
      /\ resp.route = FilterRoute(t, pa) /\ resp.status = 200
      /\ Len(fetched) = 2
      /\ resp.rows = filtered(db, t, Param("name"), fetched).rows
      /\ resp.rows = <<fetched[2], fetched[1]>>
      /\ fetched[1].LikesNb = fetched[2].LikesNb
      /\ filtered(db, t, Param("popular"), fetched).rows = fetched

\* C17: narrowing by title is optional on getAllTopicsWithFilters,
\* getAllQuestionsWithFilters and getAllEventsWithFilters: a request without
\* a search parameter has every item of the kind as its candidates, a request
\* with one has exactly the items whose title contains it, ignoring case.
C17_SearchIsOptional ==
  \A t \in Saveable :
    /\ findMany(db, t, "", Absent) = db[t]
    /\ \A search \in {"", "U", "u", "DEF", "b", "x"} :
         findMany(db, t, "", Param(search)) =
           {r \in db[t] : \E i \in 1 .. Len(r.Title) + 1, j \in 0 .. Len(r.Title) :
                            toLowerCase(SubSeq(r.Title, i, j)) = toLowerCase(search)}

\* The create routes: one per kind, two for replies.
CreateRoutes == UNION {{CreateRoute(t, [Parent |-> pa]) : pa \in Parents(t)} : t \in Tables}

Editable == {"Title", "Content", "Location", "Date"}

\* C19: update of a Topic, Question, Event or Reply changes only editable
\* fields (title, content / description, location, date) of the row it
\* addresses: the row's CreatorID, LikesNb and CreatedAt, every other row, and
\* all Like and Saved rows are as before.
C19_UpdateChangesOnlyEditableFields ==
  /\ \A t \in Tables, id \in 1 .. MaxListed + 1 : \A dto \in UpdateInputs(t) :
        LET r == update(db, t, id, dto)
        IN /\ r.db.Likes = db.Likes /\ r.db.Saved = db.Saved
           /\ r.db.User = db.User /\ r.db.seq = db.seq
           /\ \A other \in Tables \ {t} : r.db[other] = db[other]
           /\ IDs(r.db, t) = IDs(db, t)
           /\ \A old \in db[t] :
                /\ old.ID # id => old \in r.db[t]
                /\ old.ID = id =>
                     /\ r.error = ""
                     /\ \A f \in DOMAIN old \ Editable : RowOf(r.db, t, id)[f] = old[f]
                     /\ RowOf(r.db, t, id).CreatorID = old.CreatorID
                     /\ RowOf(r.db, t, id).LikesNb = old.LikesNb
                     /\ RowOf(r.db, t, id).CreatedAt = old.CreatedAt
  /\ resp.route.op = "update" /\ resp.route.table \in Tables /\ resp.status = 200 =>
        resp.id \in IDs(db, resp.route.table)
  /\ \A i \in Existing(db) :
        /\ RowOf(db, i.table, i.id).CreatorID = 1
        /\ Counter(db, i.table, i.id) = LikeRows(db, i.table, i.id)
        /\ i.table \in Saveable =>
             Counter(db, i.table, i.id) = CopiesIn(SavedRow(i.table, i.id, 1), db.Saved)

\* The update of a liked and saved topic has been answered 200: its title is
\* the new one, its counter is 1 and its Like and Saved rows are in place.
C19_Witness ==
  /\ resp.route = Route("Topics", "update") /\ resp.status = 200
  /\ resp.id \in IDs(db, "Topics")
  /\ RowOf(db, "Topics", resp.id).Title = "T"
  /\ RowOf(db, "Topics", resp.id).LikesNb = 1
  /\ BagIn(LikeRow("Topics", resp.id, 1), db.Likes)
  /\ BagIn(SavedRow("Topics", resp.id, 1), db.Saved)
  /\ \E other \in db.Topics : other.ID # resp.id /\ other.Title # "T"

\* The number of rows of a join table (Likes, Saved) for the pair of item
\* (t, id) and user u.
PairRows(rows, t, id, u) ==
  LET of == {r \in BagToSet(rows) : r[Column(t)] = id /\ r.UserID = u}
  IN BagCardinality([r \in of |-> CopiesIn(r, rows)])

\* C20: in every reachable state, those between the two round-trips of
\* concurrent like requests and between save requests included, there is at
\* most one Like row and at most one Saved row for any (target, UserID) pair.
C20_OneRowPerPair ==
  \A t \in Tables, id \in IdInputs, u \in UserInputs :
    /\ PairRows(db.Likes, t, id, u) <= 1
    /\ t \in Saveable => PairRows(db.Saved, t, id, u) <= 1

\* A second save of a pair has been answered 500 on the unique index while a
\* second like of the pair is between its two round-trips: the pair has one
\* Like row and one Saved row.
C20_Witness ==
  /\ resp.route.op = "save" /\ resp.status = 500 /\ resp.logged = "P2002"
  /\ \E u \in UserIDs(db) :
       /\ PairRows(db.Likes, resp.route.table, resp.id, u) = 1
       /\ PairRows(db.Saved, resp.route.table, resp.id, u) = 1
       /\ \E q \in BagToSet(inflight) :
            q.op = "like" /\ q.table = resp.route.table /\ q.id = resp.id /\ q.UserID = u

\* The content tables a join or reply row references: the columns of its
\* references that are set.
Targets(r) == {t \in Tables : Column(t) \in DOMAIN r /\ r[Column(t)] # NULL}

\* C21 as stated: after any sequence of like, save and delete operations,
\* every Like row has exactly one of EventID / TopicID / QuestionID / ReplyID
\* set and every Saved row has exactly one of EventID / TopicID / QuestionID set.
C21_JoinRowHasExactlyOneTarget ==
  /\ \A r \in BagToSet(db.Likes) : Cardinality(Targets(r)) = 1
  /\ \A r \in BagToSet(db.Saved) : Cardinality(Targets(r)) = 1

\* C21 as amended: every Like row and every Saved row has at most one of its
\* target columns set; a row is inserted with exactly one, the ID of an
\* existing item, and a column that is set references an existing item: the
\* delete of the item leaves the row in place with the column set to NULL.
C21_JoinRowHasAtMostOneTarget ==
  /\ \A r \in BagToSet(db.Likes) \cup BagToSet(db.Saved) :
        /\ Cardinality(Targets(r)) <= 1
        /\ \A t \in Targets(r) : r[Column(t)] \in IDs(db, t)
  /\ \A i \in Existing(db), u \in UserInputs :
        /\ \A r \in {like(db, i.table, i.id, u)} :
             \A row \in BagToSet(r.db.Likes) \ BagToSet(db.Likes) :
               Targets(row) = {i.table} /\ row[Column(i.table)] = i.id
        /\ i.table \in Saveable =>
             \A r \in {saveX(db, i.table, i.id, u)} :
               \A row \in BagToSet(r.db.Saved) \ BagToSet(db.Saved) :
                 Targets(row) = {i.table} /\ row[Column(i.table)] = i.id
  /\ \A t \in Tables : \A r \in {delete(db, t, 1)} :
        /\ BagCardinality(r.db.Likes) = BagCardinality(db.Likes)
        /\ BagCardinality(r.db.Saved) = BagCardinality(db.Saved)

\* The delete of an item that was liked and saved has been answered 200: its
\* Like row and its Saved row are still there, with no target column set.
C21_Witness ==
  /\ resp.route.op = "delete" /\ resp.status = 200
  /\ resp.id \notin IDs(db, resp.route.table)
  /\ \E r \in BagToSet(db.Likes) : Targets(r) = {}
  /\ \E r \in BagToSet(db.Saved) : Targets(r) = {}

\* C22: after any sequence of reply creations and topic / question
\* deletions, every Reply row targets exactly one of {Topic, Question}:
\* exactly one of TopicID and QuestionID is set.
C22_ReplyHasExactlyOneParent ==
  \A r \in db.Replies : Cardinality(Targets(r)) = 1

\* C23: every persistence-layer failure in a service operation (create and
\* update of each resource and the insert of signup included) is caught inside
\* the service, logged there, and surfaces to the caller as the generic
\* InternalError, never as the underlying database error.
C23_PersistenceFailureIsInternalError ==
  /\ \A t \in Tables : \A dto \in CreateInputs(t) :
        \A r \in {create(db, t, dto)} :
          r.error # "" /\ r.queries > 0 => InternalError(r) /\ r.logged # ""
  /\ \A t \in Tables, id \in 1 .. MaxListed + 1 : \A dto \in UpdateInputs(t) :
        \A r \in {update(db, t, id, dto)} :
          r.error # "" /\ r.queries > 0 => InternalError(r) /\ r.logged # ""
  /\ \A userData \in SignupInputs, salt \in SaltInputs :
        \A r \in {signup(db, userData, salt)} :
          r.error \notin {"", "BadRequestException", "UnauthorizedException"} =>
            InternalError(r) /\ r.logged # ""
  /\ resp.error # "PrismaClientKnownRequestError"

\* The rows user uid owns: the content it created, its Like and Saved rows.
Owned(d, uid) ==
  [content |-> [t \in Tables |-> {r \in d[t] : r.CreatorID = uid}],
   likes |-> {r \in BagToSet(d.Likes) : r.UserID = uid},
   saved |-> {r \in BagToSet(d.Saved) : r.UserID = uid}]

Owns(d, uid) ==
  \/ \E t \in Tables : Owned(d, uid).content[t] # {}
  \/ Owned(d, uid).likes # {}
  \/ Owned(d, uid).saved # {}

\* C24: deleteUser on a user who still owns a Topic, Question, Event, Reply,
\* Like or Saved row removes none of those rows: the delete is rejected
\* (RESTRICT) and the User row and all rows the user owns are as before; so no
\* row of the store ever references a user that has been deleted.
C24_DeleteUserIsRestricted ==
  /\ \A uid \in UserIDs(db) :
        Owns(db, uid) =>
          \A r \in {deleteUser(db, uid)} :
            /\ InternalError(r) /\ r.logged = "P2003"
            /\ r.db = db
            /\ UserByID(r.db, uid) = UserByID(db, uid)
            /\ Owned(r.db, uid) = Owned(db, uid)
  /\ \A t \in Tables : \A r \in db[t] : r.CreatorID \in UserIDs(db)
  /\ \A r \in BagToSet(db.Likes) \cup BagToSet(db.Saved) : r.UserID \in UserIDs(db)
  /\ resp.route = Route("User", "delete") /\ resp.status = 204 => resp.id \notin UserIDs(db)
  /\ resp.route = Route("User", "delete") /\ resp.id \in UserIDs(db) /\ resp.handled =>
        resp.status = 500 /\ Owns(db, resp.id)

\* The deletion of user 2, who owns nothing but the Like row and the Saved
\* row of an item deleted since, has been answered 500 on the foreign key:
\* the account and its two rows are still there.
C24_Witness ==
  /\ resp.route = Route("User", "delete") /\ resp.id = 2
  /\ resp.status = 500 /\ resp.logged = "P2003"
  /\ UserByID(db, 2) # {}
  /\ \A t \in Tables : db[t] = {}
  /\ Cardinality(Owned(db, 2).likes) = 1 /\ Cardinality(Owned(db, 2).saved) = 1

\* C25: when the join-row insert of like fails after the counter update has
\* succeeded (the pair has its Like row already, or the UserID matches no
\* user), like fails with InternalError and the increment is not rolled back:
\* the counter is one higher than before the call and the Like rows are as
\* before.
C25_FailedLikeKeepsIncrement ==
  /\ \A i \in Existing(db), u \in UserInputs :
        BagIn(LikeRow(i.table, i.id, u), db.Likes) \/ u \notin UserIDs(db) =>
          \A r \in {like(db, i.table, i.id, u)} :
            /\ InternalError(r)
            /\ r.queries = 2
            /\ r.logged = IF u \notin UserIDs(db) THEN "P2003" ELSE "P2002"
            /\ Counter(r.db, i.table, i.id) = Counter(db, i.table, i.id) + 1
            /\ r.db.Likes = db.Likes
            /\ \A f \in DOMAIN db \ {i.table} : r.db[f] = db[f]
  /\ resp.route.op = "like" /\ resp.status # 201
        /\ Item(resp.route.table, resp.id) \in Existing(db) =>
        /\ resp.status = 500 /\ resp.error = "InternalServerErrorException"
        /\ resp.queries = 2 /\ resp.logged \in {"P2002", "P2003"}
        /\ Item(resp.route.table, resp.id) \in failed
  /\ Quiescent /\ db.Likes = EmptyBag =>
        \A i \in Existing(db) : Counter(db, i.table, i.id) # 0 => i \in failed

\* A like with a UserID that matches no user has been answered 500 on the
\* foreign key; nothing else has run: the counter is 1 and there is no Like row.
C25_Witness ==
  /\ Quiescent
  /\ resp.route.op = "like" /\ resp.status = 500 /\ resp.logged = "P2003" /\ resp.queries = 2
  /\ Counter(db, resp.route.table, resp.id) = 1
  /\ db.Likes = EmptyBag
  /\ failed = {Item(resp.route.table, resp.id)}

\* C26: unlike on an existing target for which the user has no Like row does
\* no existence check first: it decrements the counter by 1, below 0 too,
\* then fails with InternalError when the join-row delete finds nothing; the
\* counter stays decremented and the Like rows are as before.
C26_UnlikeWithoutRowDecrements ==
  /\ \A i \in Existing(db), u \in UserInputs :
        ~BagIn(LikeRow(i.table, i.id, u), db.Likes) =>
          \A r \in {unlike(db, i.table, i.id, u)} :
            /\ InternalError(r)
            /\ r.queries = 2 /\ r.logged = "P2025"
            /\ Counter(r.db, i.table, i.id) = Counter(db, i.table, i.id) - 1
            /\ r.db.Likes = db.Likes
            /\ \A f \in DOMAIN db \ {i.table} : r.db[f] = db[f]
  /\ resp.route.op = "unlike" /\ resp.status # 201
        /\ Item(resp.route.table, resp.id) \in Existing(db) =>
        /\ resp.status = 500 /\ resp.error = "InternalServerErrorException"
        /\ resp.queries = 2 /\ resp.logged = "P2025"
        /\ Item(resp.route.table, resp.id) \in failed

\* An unlike of an item nobody has liked has been answered 500 after the
\* delete found no row; nothing else has run: the counter is -1.
C26_Witness ==
  /\ Quiescent
  /\ resp.route.op = "unlike" /\ resp.status = 500 /\ resp.logged = "P2025" /\ resp.queries = 2
  /\ Counter(db, resp.route.table, resp.id) = -1
  /\ db.Likes = EmptyBag
  /\ failed = {Item(resp.route.table, resp.id)}

\* C27: like on a target ID that does not exist fails with InternalError at
\* the counter update and never reaches the join-row insert: no Like row is
\* created and no counter of any item changes (the rule is applied to the
\* quiescent stores; the answers are those of every request made).
C27_LikeOfMissingTargetStopsAtUpdate ==
  /\ Quiescent =>
        \A t \in Tables : \A id \in (1 .. 2) \ IDs(db, t) : \A u \in UserInputs :
          \A r \in {like(db, t, id, u)} :
            /\ InternalError(r)
            /\ r.queries = 1 /\ r.logged = "P2025"
            /\ r.db = db
  /\ resp.route.op = "like" /\ Item(resp.route.table, resp.id) \notin Existing(db) =>
        /\ resp.status = 500 /\ resp.error = "InternalServerErrorException"
        /\ resp.queries = 1 /\ resp.logged = "P2025"
  /\ \A q \in BagToSet(inflight) : q.op = "like" => Item(q.table, q.id) \in Existing(db)
  /\ \A r \in BagToSet(db.Likes) : \A t \in Targets(r) : r[Column(t)] \in IDs(db, t)
  /\ failed \subseteq Existing(db)

\* A like of question 1 has been answered 500 after one persistence call on
\* a store that holds no question: no Like row, and the counter of the item
\* the store does hold is 0.
C27_Witness ==
  /\ resp.route = Route("Questions", "like") /\ resp.id = 1
  /\ resp.status = 500 /\ resp.queries = 1 /\ resp.logged = "P2025"
  /\ db.Questions = {}
  /\ db.Likes = EmptyBag /\ Quiescent
  /\ \E i \in Existing(db) : Counter(db, i.table, i.id) = 0

\* The like / unlike requests on item (t, id) that are between their two
\* round-trips.
InFlight(op, t, id) ==
  LET of == {q \in BagToSet(inflight) : q.op = op /\ q.table = t /\ q.id = id}
  IN BagCardinality([q \in of |-> CopiesIn(q, inflight)])

\* C28: when like requests of distinct users, none of whom has liked the
\* target, run concurrently in any interleaving of their two persistence
\* steps and all succeed, the counter ends as many higher as there were
\* requests and as many Like rows are added: on an item where no like or
\* unlike has failed, the counter is at every moment the number of Like rows
\* plus the likes, minus the unlikes, that are between their two steps.
C28_NoIncrementLost ==
  /\ \A i \in Existing(db) \ failed :
        Counter(db, i.table, i.id) =
          LikeRows(db, i.table, i.id) + InFlight("like", i.table, i.id)
            - InFlight("unlike", i.table, i.id)
  /\ Quiescent =>
        \A i \in Existing(db), u \in UserIDs(db), v \in UserIDs(db) :
          u # v /\ ~BagIn(LikeRow(i.table, i.id, u), db.Likes)
            /\ ~BagIn(LikeRow(i.table, i.id, v), db.Likes) =>
            \A a \in {likeUpdate(likeUpdate(db, i.table, i.id).db, i.table, i.id)} :
              \A b \in {likeCreate(likeCreate(a.db, i.table, i.id, u).db, i.table, i.id, v)} :
                /\ a.error = "" /\ b.error = ""
                /\ Counter(b.db, i.table, i.id) = Counter(db, i.table, i.id) + 2
                /\ LikeRows(b.db, i.table, i.id) = LikeRows(db, i.table, i.id) + 2

\* Two users liked an item at the same time: both counter updates ran before
\* either insert; the first like has just been answered 201 and the second is
\* still between its two steps, with the counter at 2 and one Like row.
C28_Witness ==
  /\ failed = {}
  /\ resp.route.op = "like" /\ resp.status = 201
  /\ Counter(db, resp.route.table, resp.id) = 2
  /\ LikeRows(db, resp.route.table, resp.id) = 1
  /\ InFlight("like", resp.route.table, resp.id) = 1
  /\ InFlight("unlike", resp.route.table, resp.id) = 0
  /\ \E q \in BagToSet(inflight) : ~BagIn(LikeRow(q.table, q.id, q.UserID), db.Likes)

\* C29: logout keeps no revocation state on the server: it writes nothing to
\* the store, so every header the gate admitted before the logout it admits
\* after it, with the same user, until the token expires or its user is
\* deleted; logout only clears the user attached to its own request and the
\* cookie header.
C29_LogoutRevokesNothing ==
  [][/\ resp' # resp /\ resp'.route = Route("User", "logout") /\ resp'.handled =>
          /\ db' = db /\ inflight' = inflight /\ now' = now
          /\ \A h \in Headers : JwtMiddleware(db', h, now') = JwtMiddleware(db, h, now)
          /\ \E h \in Headers : JwtMiddleware(db', h, now').admitted
          /\ resp'.status = 200 /\ resp'.queries = 0
          /\ resp'.userEntity = NoUser /\ resp'.cookie = NoToken
     /\ db' # db \/ now' # now =>
          \A h \in Headers :
            JwtMiddleware(db, h, now).admitted /\ ~JwtMiddleware(db', h, now').admitted =>
              \/ now < TokenOf(h).exp /\ now' >= TokenOf(h).exp
              \/ TokenOf(h).sub \in UserIDs(db) \ UserIDs(db')]_vars

\* A logout has been answered 200 for a request the gate let through, and the
\* token login issued to that account is still admitted by the gate.
C29_Witness ==
  /\ resp.route = Route("User", "logout") /\ resp.handled /\ resp.status = 200
  /\ resp.next = 1 /\ resp.userEntity = NoUser
  /\ \E u \in db.User :
       LET tok == sign([sub |-> u.UserID, email |-> u.Email], DateNow(0) + JWT_DURATION, 0)
       IN /\ JwtMiddleware(db, Bearer(tok), now).admitted
          /\ JwtMiddleware(db, Bearer(tok), now).userEntity = u

\* The UserIDs the sequence has handed out whose row has been deleted.
Deleted(d) == (1 .. d.seq["User"]) \ UserIDs(d)

\* C30: after deleteUser(u) has succeeded, every later request that presents
\* a token issued to u and still valid is rejected by the gate with
\* Unauthorized and reaches no handler: the gate resolves the subject of the
\* token against the User table on every request, and a UserID is never
\* handed out again.
C30_DeletedUserIsLockedOut ==
  /\ \A h \in Headers :
        Verifies(TokenOf(h)) /\ TokenOf(h).sub \in Deleted(db) =>
          /\ \A g \in {JwtMiddleware(db, h, now)} :
               ~g.admitted /\ g.next = 0 /\ g.userEntity = NoUser
          /\ \A route \in Routes \ Public :
               \A rejection \in {Rejection(route, Gate(route, db, h, now))} :
                 /\ rejection.status = 401 /\ rejection.error = "UnauthorizedException"
                 /\ ~rejection.handled /\ rejection.queries = 0
  /\ \A uid \in UserIDs(db) :
        \A r \in {deleteUser(db, uid)} :
          r.error = "" =>
            /\ uid \in Deleted(r.db)
            /\ \A h \in Headers, time \in now .. MaxTime :
                 TokenOf(h).sub = uid => ~JwtMiddleware(r.db, h, time).admitted
  /\ \A u \in db.User : u.UserID \in 1 .. db.seq["User"]
  /\ resp.handled /\ resp.next = 1 /\ resp.route # Route("User", "delete") =>
        resp.userEntity.UserID \notin Deleted(db)
          \/ resp.route = Route("User", "logout")

\* A user has deleted its own account with its own token (answered 204), and
\* that token, which has not expired, is no longer admitted by the gate.
C30_Witness ==
  /\ resp.route = Route("User", "delete") /\ resp.status = 204
  /\ resp.userEntity.UserID = resp.id
  /\ resp.id \in Deleted(db)
  /\ \E h \in Headers :
       /\ TokenOf(h).sub = resp.id /\ Verifies(TokenOf(h))
       /\ ~JwtMiddleware(db, h, now).admitted

====
